---- MODULE Spec2Model ----
(***************************************************************************)
(* Model of the hybrid persistence layer of the chat-room application      *)
(* (services/storageService: local browser storage or a remote realtime    *)
(* database, chosen once at start-up) and of the App handlers that call    *)
(* it.                                                                     *)
(*                                                                         *)
(* Values.  A JavaScript value that the code treats as "array, object or   *)
(* missing" is a record [kind, items]: kind is "array", "object" (a        *)
(* key-indexed mapping; items lists its values in key order, which is what *)
(* Object.values returns) or "absent".  A room is a record with the        *)
(* fields id, title, password, messages, memos; "" is the missing          *)
(* (falsy) id or title, and password is "undefined" (the property is set   *)
(* to undefined), "absent" (no such property) or a text.                   *)
(***************************************************************************)
EXTENDS Integers, Sequences, FiniteSets, TLC

\* ------------------------------------------------------------------ bounds
MaxOps == 3        \* operations invoked in one behaviour

\* ------------------------------------------------------------- value sets
Clients == {"c1", "c2"}            \* browser tabs (local) or clients (cloud)
AllClients == Clients \cup {"c3"}  \* a third client, for three-way races
Subs == {"s1", "s2"}               \* subscriptions made with subscribeToRooms
\* The tab (window) in which each subscription is made: both in one tab, so
\* that a write in c1 is a same-tab write and a write in c2 a cross-tab one
SubTab(s) == "c1"
IdOrder == <<"r1", "r2">>          \* the room identifiers, in key order
RoomIds == {IdOrder[i] : i \in 1..Len(IdOrder)}
NoId == ""
Titles == {"t1", "t2"}
NoTitle == ""
MsgIds == {"m1", "m2"}
MemoIds == {"k1", "k2"}

Arr(s) == [kind |-> "array", items |-> s]
Obj(s) == [kind |-> "object", items |-> s]
Absent == [kind |-> "absent", items |-> <<>>]

Item(i, t) == [id |-> i, type |-> t]
SystemMessage == Item("sys", "system")

\* JavaScript null / undefined in the place of a room object
Null == [id |-> "null", title |-> "", password |-> "absent",
         messages |-> Absent, memos |-> Absent]

\* ------------------------------------------------------ JavaScript helpers
Truthy(v) == v.kind # "absent"
IsArray(v) == v.kind = "array"
ObjectValues(v) == v.items

\* A saveRoom that hands the room to set as it is
NoClone(room) == room

\* JSON.parse(JSON.stringify(x)): a property whose value is undefined is
\* dropped; a property whose value is null stays null; arrays and objects
\* keep their shape.  (The password is the leaf of a room that may be a
\* text, "undefined", "null", or "absent" when there is no such property.)
JsonClone(room) ==
  [room EXCEPT !.password = IF @ = "undefined" THEN "absent" ELSE @]

JsonCloneAll(rooms) == [i \in 1..Len(rooms) |-> JsonClone(rooms[i])]

\* What the realtime database keeps of a value written to it: an empty
\* array or object is not stored at all, and a null leaf deletes its path.
RtdbStored(room) ==
  [room EXCEPT !.messages = IF @.items = <<>> THEN Absent ELSE @,
               !.memos = IF @.items = <<>> THEN Absent ELSE @,
               !.password = IF @ = "null" THEN "absent" ELSE @]

\* String(x) of lines 210: every identifier of the model is already a string
StringOf(x) == x

\* rooms.findIndex(r => r.id === id); 0 stands for JavaScript's -1
FindIndex(rooms, id) ==
  IF \E i \in 1..Len(rooms) : rooms[i].id = id
  THEN CHOOSE i \in 1..Len(rooms) :
         /\ rooms[i].id = id
         /\ \A j \in 1..(i - 1) : rooms[j].id # id
  ELSE 0

\* rooms.find(r => r.id === id), Null when there is none
FindRoom(rooms, id) ==
  IF FindIndex(rooms, id) = 0 THEN Null ELSE rooms[FindIndex(rooms, id)]

\* ------------------------------------------------------------------ state
VARIABLES
  cloud,          \* isCloudEnabled && db: fixed when the module is loaded
  localStore,     \* the parsed content of localStorage[ROOMS_KEY]
  remote,         \* the remote 'rooms' node: identifier -> record, or Null
  call,           \* per client: the storage call it made last
  app,            \* per client: the App's currentRoom, currentUser, notice
  sub,            \* per subscription: made, disposed, last delivered collection
  onStorage,      \* subscriptions with a 'storage' listener on their window
  onStorageLocal, \* subscriptions with a 'storage-local' listener
  onValue,        \* subscriptions with a value listener at 'rooms'
  storageEvt,     \* per tab: a native storage event not yet dispatched
  valueEvt,       \* per subscription: a remote value event not yet delivered
  fired,          \* per subscription: callback invocations of the last step
  usedIds,        \* identifiers that createRoom has generated
  nops,           \* operations invoked so far
  config,         \* the content of localStorage[FIREBASE_CONFIG_KEY]
  flow,           \* the state of the CloudSetupModal of tab c1
  probe,          \* the testFirebaseConnection call of tab c1
  showCloudSetup, \* the App of tab c1 renders the CloudSetupModal
  file,           \* the file handleExportRoom downloaded last
  effect          \* the room subscription effect of the App of tab c1

vars == <<cloud, localStore, remote, call, app, sub, onStorage,
          onStorageLocal, onValue, storageEvt, valueEvt, fired, usedIds,
          nops, config, flow, probe, showCloudSetup, file, effect>>

NoItem == Item("", "")
IdleCall == [name |-> "none", stage |-> "idle", rid |-> NoId, room |-> Null,
             arg |-> NoItem, base |-> Null, ret |-> "none"]
NoSub == [made |-> FALSE, got |-> FALSE, disposed |-> FALSE, last |-> <<>>,
          error |-> "none"]
NoApp == [currentRoom |-> Null, currentUser |-> FALSE, notice |-> "none",
          unhandled |-> FALSE]
NoFire == [s \in Subs |-> 0]

\* ------------------------------------------------------------ credentials
\* A configuration text and what it parses to.  kind is "none" (nothing
\* stored), "unparsable" (neither a JavaScript object literal nor JSON),
\* "notObject" (it parses to something that is no object) or "object"; of an
\* object, whether apiKey and projectId are there, where databaseURL comes
\* from ("none", "given", or "derived" from the project id), and sdk: the
\* call of the Firebase SDK that throws on this configuration, if any.
Config(kind, apiKey, projectId, databaseURL, sdk) ==
  [kind |-> kind, apiKey |-> apiKey, projectId |-> projectId,
   databaseURL |-> databaseURL, sdk |-> sdk]
NoConfig == Config("none", FALSE, FALSE, "none", "ok")
UnparsableConfig == Config("unparsable", FALSE, FALSE, "none", "ok")
GoodConfig == Config("object", TRUE, TRUE, "given", "ok")
SdkOutcomes == {"ok", "initializeApp", "getDatabase"}

\* getFirebaseConfig: the stored configuration parsed, null when nothing is
\* stored or the text does not parse
getFirebaseConfig(stored) ==
  IF stored.kind \in {"none", "unparsable"} THEN NoConfig ELSE stored

\* initFirebase that trusts whatever configuration is stored
initFirebaseNoCatch(stored) == getFirebaseConfig(stored) # NoConfig

\* initFirebase: the value of isCloudEnabled (and whether db is set) after
\* the module was loaded with this content of localStorage
initFirebase(stored) ==
  /\ getFirebaseConfig(stored) # NoConfig
  /\ getFirebaseConfig(stored).sdk = "ok"

\* The CloudSetupModal: its error line ('' is <<>>), isTesting, and the
\* configuration that handleSave is testing
NoFlow == [error |-> <<>>, isTesting |-> FALSE, config |-> NoConfig]

\* The effect of App.tsx lines 45-62.  ref stands for the identity of the
\* object in currentRoom (0: null; 1, 2 and 3: objects that are not the same
\* object) and deps for the identity the effect saw when it last ran (-1: it
\* has not run), which is what React compares to decide whether the effect
\* runs again.  closure is the id of the currentRoom that the callback of
\* the last run closes over, NoId when that was null.
NoEffect == [ref |-> 0, deps |-> -1, closure |-> NoId]

\* A testFirebaseConnection call: where it is (pc: "idle", "waiting" for the
\* inner promise, "cleanup" while deleteApp is awaited, "done"), whether the
\* throwaway app exists, whether the 5-second timer is armed and the
\* listener at '.info/connected' attached, the last value that listener
\* saw, how the try block ended and how deleteApp ended
NoProbe == [pc |-> "idle", testApp |-> FALSE, timer |-> FALSE,
            listener |-> FALSE, seen |-> "none", outcome |-> "none",
            cleanup |-> "none"]

\* ------------------------------------------------------------ read paths
\* The value of localStore when the text stored under ROOMS_KEY is not JSON:
\* JSON.parse throws a SyntaxError on it
Unparsable == <<[Null EXCEPT !.id = "SyntaxError"]>>
StoredParses == localStore # Unparsable

\* getLocalRooms: the stored text parsed, [] when nothing is stored or when
\* parsing throws
getLocalRooms == IF StoredParses THEN localStore ELSE <<>>

\* The mapping of lines 135-139 applied to one remote record
SanitizeRemoteRoom(r) ==
  [r EXCEPT !.messages = IF Truthy(@) THEN Arr(ObjectValues(@)) ELSE Arr(<<>>),
            !.memos = IF Truthy(@) THEN Arr(ObjectValues(@)) ELSE Arr(<<>>)]

RECURSIVE RemoteValues(_, _)
\* Object.values(data) for the 'rooms' node node: its children in key order
RemoteValues(node, i) ==
  IF i > Len(IdOrder) THEN <<>>
  ELSE (IF node[IdOrder[i]] = Null THEN <<>> ELSE <<node[IdOrder[i]]>>)
       \o RemoteValues(node, i + 1)

\* What the value listener of subscribeToRooms hands to the callback
CloudRooms(node) ==
  LET vals == RemoteValues(node, 1)
  IN [i \in 1..Len(vals) |-> SanitizeRemoteRoom(vals[i])]

\* The collection a subscriber is given when it is brought up to date
CurrentRooms == IF cloud THEN CloudRooms(remote) ELSE getLocalRooms

\* callback(rooms) of one subscription
Invoke(s, rooms) == [s EXCEPT !.got = TRUE, !.last = rooms]

\* loadLocal of one subscription: JSON.parse(stored) is not guarded, so on a
\* text that does not parse it throws before the callback is called
loadLocal(s) ==
  IF StoredParses THEN Invoke(s, localStore) ELSE [s EXCEPT !.error = "thrown"]

\* How many times loadLocal, run n times, calls the callback
Calls(n) == IF StoredParses THEN n ELSE 0

\* ------------------------------------------------------------------ Init
Init ==
  /\ config \in {NoConfig, GoodConfig}
  /\ cloud = initFirebase(config)
  /\ flow = NoFlow
  /\ showCloudSetup = FALSE
  /\ file = Null
  /\ effect = NoEffect
  /\ probe = NoProbe
  /\ localStore = <<>>
  /\ remote = [r \in RoomIds |-> Null]
  /\ call = [c \in AllClients |-> IdleCall]
  /\ app = [c \in AllClients |-> NoApp]
  /\ sub = [s \in Subs |-> NoSub]
  /\ onStorage = {}
  /\ onStorageLocal = {}
  /\ onValue = {}
  /\ storageEvt = [c \in AllClients |-> FALSE]
  /\ valueEvt = [s \in Subs |-> FALSE]
  /\ fired = NoFire
  /\ usedIds = {}
  /\ nops = 0

\* --------------------------------------------------------- subscribeToRooms
Subscribe(s) ==
  /\ ~sub[s].made
  /\ IF cloud
     THEN /\ onValue' = onValue \cup {s}
          /\ valueEvt' = [valueEvt EXCEPT ![s] = TRUE]
          /\ sub' = [sub EXCEPT ![s].made = TRUE]
          /\ fired' = NoFire
          /\ UNCHANGED <<onStorage, onStorageLocal>>
     ELSE /\ sub' = [sub EXCEPT ![s] =
                        loadLocal([@ EXCEPT !.made = StoredParses])]
          /\ fired' = [NoFire EXCEPT ![s] = Calls(1)]
          /\ onStorage' = IF StoredParses THEN onStorage \cup {s}
                          ELSE onStorage
          /\ onStorageLocal' = IF StoredParses THEN onStorageLocal \cup {s}
                               ELSE onStorageLocal
          /\ UNCHANGED <<onValue, valueEvt>>
  /\ UNCHANGED <<cloud, config, flow, probe, showCloudSetup, file, effect,
                 localStore, remote, call, app, storageEvt, usedIds,
                 nops>>

\* A disposer that detaches the 'storage' listener and forgets the
\* 'storage-local' one
DisposeStorageOnly(s) ==
  /\ sub[s].made
  /\ sub' = [sub EXCEPT ![s].disposed = TRUE]
  /\ IF cloud
     THEN /\ onValue' = onValue \ {s}
          /\ UNCHANGED <<onStorage, onStorageLocal>>
     ELSE /\ onStorage' = onStorage \ {s}
          /\ UNCHANGED <<onStorageLocal, onValue>>
  /\ fired' = NoFire
  /\ UNCHANGED <<cloud, config, flow, probe, showCloudSetup, file, effect,
                 localStore, remote, call, app, storageEvt, valueEvt,
                 usedIds, nops>>

\* The disposer that subscribeToRooms returned; it may be called again
Dispose(s) ==
  /\ sub[s].made
  /\ sub' = [sub EXCEPT ![s].disposed = TRUE]
  /\ IF cloud
     THEN /\ onValue' = onValue \ {s}
          /\ UNCHANGED <<onStorage, onStorageLocal>>
     ELSE /\ onStorage' = onStorage \ {s}
          /\ onStorageLocal' = onStorageLocal \ {s}
          /\ UNCHANGED onValue
  /\ fired' = NoFire
  /\ UNCHANGED <<cloud, config, flow, probe, showCloudSetup, file, effect,
                 localStore, remote, call, app, storageEvt, valueEvt,
                 usedIds, nops>>

\* The remote backend delivers a value event to one listener
DeliverValue(s) ==
  /\ cloud
  /\ s \in onValue
  /\ valueEvt[s]
  /\ sub' = [sub EXCEPT ![s] = Invoke(@, CloudRooms(remote))]
  /\ valueEvt' = [valueEvt EXCEPT ![s] = FALSE]
  /\ fired' = [NoFire EXCEPT ![s] = 1]
  /\ UNCHANGED <<cloud, config, flow, probe, showCloudSetup, file, effect,
                 localStore, remote, call, app, onStorage,
                 onStorageLocal, onValue, storageEvt, usedIds, nops>>

\* The browser dispatches the native storage event in another tab
DeliverStorage(c) ==
  /\ ~cloud
  /\ storageEvt[c]
  /\ LET hit(s) == s \in onStorage /\ SubTab(s) = c
     IN /\ sub' = [s \in Subs |-> IF hit(s) THEN loadLocal(sub[s])
                                  ELSE sub[s]]
        /\ fired' = [s \in Subs |-> IF hit(s) THEN Calls(1) ELSE 0]
  /\ storageEvt' = [storageEvt EXCEPT ![c] = FALSE]
  /\ UNCHANGED <<cloud, config, flow, probe, showCloudSetup, file, effect,
                 localStore, remote, call, app, onStorage,
                 onStorageLocal, onValue, valueEvt, usedIds, nops>>

\* The error callback of the value listener: the backend cancels the
\* listener (no permission to read 'rooms'); the error is logged
ListenerError(s) ==
  /\ cloud
  /\ s \in onValue
  /\ sub' = [sub EXCEPT ![s].error = "logged"]
  /\ onValue' = onValue \ {s}
  /\ valueEvt' = [valueEvt EXCEPT ![s] = FALSE]
  /\ fired' = NoFire
  /\ UNCHANGED <<cloud, config, flow, probe, showCloudSetup, file, effect,
                 localStore, remote, call, app, onStorage,
                 onStorageLocal, storageEvt, usedIds, nops>>

\* Something other than this program (a developer tool, another page of
\* the origin) leaves a text under ROOMS_KEY that is not JSON; the tabs that
\* listen get the browser's storage event
Corrupt ==
  /\ StoredParses
  /\ localStore' = Unparsable
  /\ storageEvt' = [d \in AllClients |->
       storageEvt[d] \/ \E s \in onStorage : SubTab(s) = d]
  /\ fired' = NoFire
  /\ UNCHANGED <<cloud, config, flow, probe, showCloudSetup, file, effect,
                 remote, call, app, sub, onStorage, onStorageLocal,
                 onValue, valueEvt, usedIds, nops>>

\* ------------------------------------------------------- local write path
\* notifyLocalChanges left out of a write path: no handler runs
notifyNobody(c, s) == 0

\* notifyLocalChanges in tab c: how often the handler of subscription s runs
notifyLocalChanges(c, s) ==
  (IF s \in onStorage /\ SubTab(s) = c THEN 1 ELSE 0)
  + (IF s \in onStorageLocal /\ SubTab(s) = c THEN 1 ELSE 0)

\* localStorage.setItem(ROOMS_KEY, JSON.stringify(rooms)) followed by
\* notifyLocalChanges(), in tab c; other tabs with a listener get the native
\* storage event when the stored text changed
LocalWrite(c, rooms) ==
  /\ localStore' = JsonCloneAll(rooms)
  /\ sub' = [s \in Subs |-> IF notifyLocalChanges(c, s) > 0
                            THEN Invoke(sub[s], JsonCloneAll(rooms))
                            ELSE sub[s]]
  /\ fired' = [s \in Subs |-> notifyLocalChanges(c, s)]
  /\ storageEvt' = [d \in AllClients |->
       IF /\ d # c
          /\ JsonCloneAll(rooms) # localStore
          /\ \E s \in onStorage : SubTab(s) = d
       THEN TRUE ELSE storageEvt[d]]

\* saveRoom without the findIndex test: the room is always pushed
SaveLocalAlwaysPush(rooms, room) == Append(rooms, room)

\* The else branch of saveRoom: replace in place or append
SaveLocal(rooms, room) ==
  IF FindIndex(rooms, room.id) > 0
  THEN [rooms EXCEPT ![FindIndex(rooms, room.id)] = room]
  ELSE Append(rooms, room)

\* deleteRoom written with rooms.splice(rooms.findIndex(...), 1): index -1
\* removes the last room
DeleteLocalSplice(rooms, roomId) ==
  LET k == IF FindIndex(rooms, roomId) = 0 THEN Len(rooms)
           ELSE FindIndex(rooms, roomId)
  IN [i \in 1..(Len(rooms) - (IF Len(rooms) = 0 THEN 0 ELSE 1)) |->
        IF i < k THEN rooms[i] ELSE rooms[i + 1]]

\* The else branch of deleteRoom
DeleteLocal(rooms, roomId) ==
  SelectSeq(rooms, LAMBDA r : StringOf(r.id) # StringOf(roomId))

\* A step that writes nothing to local storage and invokes no callback
NoLocalWrite ==
  /\ fired' = NoFire
  /\ UNCHANGED <<localStore, sub, storageEvt>>

\* The remote node takes a new value; every value listener at 'rooms' gets an
\* event when the value changed
RemoteWrite(node) ==
  /\ remote' = node
  /\ valueEvt' = [s \in Subs |-> valueEvt[s] \/ (node # remote /\ s \in onValue)]

\* saveRoom that writes the local collection in either mode
saveRoomEverywhere(c, room) == LocalWrite(c, SaveLocal(getLocalRooms, room))

\* The synchronous part of saveRoom(room) called in client c: in local mode
\* the whole function, in cloud mode nothing yet (set is awaited)
saveRoom(c, room) ==
  IF cloud THEN NoLocalWrite
  ELSE LocalWrite(c, SaveLocal(getLocalRooms, room))

\* The record of a call that has settled: its name and how it ended
Settled(name, stage, ret) ==
  [IdleCall EXCEPT !.name = name, !.stage = stage, !.ret = ret]

TxNames == {"addMessage", "addMemo", "deleteMemo"}

\* The operations that start a remote request and return without awaiting
\* or returning its promise: runTransaction(...) in addMessage, addMemo and
\* deleteMemo, saveRoom(roomData) in importRoom
Detached(name) == name \in TxNames \cup {"importRoom"}

\* The record of a call whose remote request failed.  An operation that
\* awaits the request rejects; one that had returned already has nothing
\* left to report with, and the failure is lost to its caller.
Failed(name, ret) ==
  Settled(name, IF Detached(name) THEN "lost" ELSE "rejected", ret)

\* What the App of the calling client is left with when the request of the
\* operation fails: handleCreateRoom catches and alerts; handleConfirmDelete
\* and handleFileChange hold no promise, nor does anybody hold the one of
\* runTransaction, so the rejection is unhandled; a bare saveRoom hands its
\* rejection to whoever called it.
AppOnFailure(a, name) ==
  CASE name = "createRoom" -> [a EXCEPT !.notice = "createFailed"]
    [] name = "saveRoom" -> a
    [] OTHER -> [a EXCEPT !.unhandled = TRUE]

\* The call record left by an operation that went through saveRoom
Saving(name, room, ret) ==
  IF cloud
  THEN [IdleCall EXCEPT !.name = name, !.rid = room.id, !.room = room,
                        !.ret = ret, !.stage = "inflight"]
  ELSE Settled(name, "resolved", ret)

CanCall(c) == nops < MaxOps /\ call[c].stage # "inflight"

\* ------------------------------------------------------------- inputs
SaveInputs ==
  [id : RoomIds, title : Titles, password : {"undefined"},
   messages : {Arr(<<SystemMessage>>)},
   memos : {Arr(<<>>)}]

ImportShapes ==
  {<<Absent, Absent>>,
   <<Arr(<<SystemMessage>>), Arr(<<Item("k1", "memo")>>)>>,
   <<Obj(<<Item("m1", "normal")>>), Absent>>}

\* What JSON.parse of an imported file may yield: nothing usable (Null), or
\* an object with or without id, title, messages and memos
ImportInputs ==
  {Null} \cup
  {[id |-> "r1", title |-> "t1", password |-> "absent",
    messages |-> sh[1], memos |-> sh[2]] : sh \in ImportShapes} \cup
  {[id |-> it[1], title |-> it[2], password |-> "absent",
    messages |-> Arr(<<SystemMessage>>), memos |-> Absent] :
     it \in {<<NoId, "t1">>, <<"r1", NoTitle>>, <<NoId, NoTitle>>}}

\* ------------------------------------------------------------- saveRoom
SaveRoom(c, room) ==
  /\ CanCall(c)
  /\ saveRoom(c, room)
  /\ call' = [call EXCEPT ![c] = Saving("saveRoom", room, "none")]
  /\ usedIds' = usedIds \cup {room.id}
  /\ nops' = nops + 1
  /\ UNCHANGED <<cloud, config, flow, probe, showCloudSetup, file, effect,
                 remote, app, onStorage, onStorageLocal, onValue,
                 valueEvt>>

\* handleCreateRoom after createRoom resolved
RoomCreated(a, room) ==
  [a EXCEPT !.currentUser = TRUE, !.currentRoom = room]

\* handleCreateRoom after createRoom rejected
RoomNotCreated(a) == AppOnFailure(a, "createRoom")

\* A set that keeps the messages and memos the server has when they are
\* more than the room brings
SetApplyMerge(c) ==
  /\ cloud
  /\ call[c].stage = "inflight"
  /\ call[c].name \in {"saveRoom", "createRoom", "importRoom"}
  /\ LET old == remote[call[c].rid]
         new == RtdbStored(JsonClone(call[c].room))
         longer(a, b) == IF Len(a.items) > Len(b.items) THEN a ELSE b
     IN RemoteWrite([remote EXCEPT ![call[c].rid] =
          [new EXCEPT !.messages = longer(old.messages, @),
                      !.memos = longer(old.memos, @)]])
  /\ call' = [call EXCEPT ![c] = Settled(@.name, "resolved", @.ret)]
  /\ app' = [app EXCEPT ![c] = IF call[c].name = "createRoom"
                               THEN RoomCreated(@, call[c].room) ELSE @]
  /\ NoLocalWrite
  /\ UNCHANGED <<cloud, config, flow, probe, showCloudSetup, file, effect,
                 onStorage, onStorageLocal, onValue, usedIds, nops>>

\* set(ref(db, 'rooms/' + room.id), sanitizedRoom) takes effect and the
\* awaiting caller continues
SetApply(c) ==
  /\ cloud
  /\ call[c].stage = "inflight"
  /\ call[c].name \in {"saveRoom", "createRoom", "importRoom"}
  /\ RemoteWrite([remote EXCEPT ![call[c].rid] =
                    RtdbStored(JsonClone(call[c].room))])
  /\ call' = [call EXCEPT ![c] = Settled(@.name, "resolved", @.ret)]
  /\ app' = [app EXCEPT ![c] = IF call[c].name = "createRoom"
                               THEN RoomCreated(@, call[c].room) ELSE @]
  /\ NoLocalWrite
  /\ UNCHANGED <<cloud, config, flow, probe, showCloudSetup, file, effect,
                 onStorage, onStorageLocal, onValue, usedIds, nops>>

\* set(...) fails: saveRoom logs and re-throws
SetFail(c) ==
  /\ cloud
  /\ call[c].stage = "inflight"
  /\ call[c].name \in {"saveRoom", "createRoom", "importRoom"}
  /\ call' = [call EXCEPT ![c] = Failed(@.name, @.ret)]
  /\ app' = [app EXCEPT ![c] = IF call[c].name = "createRoom"
                               THEN RoomNotCreated(@)
                               ELSE AppOnFailure(@, call[c].name)]
  /\ NoLocalWrite
  /\ UNCHANGED <<cloud, config, flow, probe, showCloudSetup, file, effect,
                 remote, onStorage, onStorageLocal, onValue, valueEvt,
                 usedIds, nops>>

\* ------------------------------------------------------------ deleteRoom
DeleteRoom(c, roomId) ==
  /\ CanCall(c)
  /\ IF cloud
     THEN /\ NoLocalWrite
          /\ call' = [call EXCEPT ![c] =
               [IdleCall EXCEPT !.name = "deleteRoom", !.rid = roomId,
                                !.stage = "inflight"]]
     ELSE /\ LocalWrite(c, DeleteLocal(getLocalRooms, roomId))
          /\ call' = [call EXCEPT ![c] =
                        Settled("deleteRoom", "resolved", "none")]
  /\ nops' = nops + 1
  /\ UNCHANGED <<cloud, config, flow, probe, showCloudSetup, file, effect,
                 remote, app, onStorage, onStorageLocal, onValue,
                 valueEvt, usedIds>>

\* remove(ref(db, 'rooms/' + roomId)) takes effect
RemoveApply(c) ==
  /\ cloud
  /\ call[c].stage = "inflight"
  /\ call[c].name = "deleteRoom"
  /\ RemoteWrite([remote EXCEPT ![call[c].rid] = Null])
  /\ call' = [call EXCEPT ![c] = Settled(@.name, "resolved", @.ret)]
  /\ NoLocalWrite
  /\ UNCHANGED <<cloud, config, flow, probe, showCloudSetup, file, effect,
                 app, onStorage, onStorageLocal, onValue, usedIds,
                 nops>>

\* remove(...) fails: deleteRoom logs and re-throws
RemoveFail(c) ==
  /\ cloud
  /\ call[c].stage = "inflight"
  /\ call[c].name = "deleteRoom"
  /\ call' = [call EXCEPT ![c] = Failed(@.name, @.ret)]
  /\ app' = [app EXCEPT ![c] = AppOnFailure(@, call[c].name)]
  /\ NoLocalWrite
  /\ UNCHANGED <<cloud, config, flow, probe, showCloudSetup, file, effect,
                 remote, onStorage, onStorageLocal, onValue,
                 valueEvt, usedIds, nops>>

\* ------------------------------------------------------------ createRoom
\* crypto.randomUUID(), or the timestamp-and-random fallback: a token that
\* was not handed out before
GenerateId == RoomIds \ usedIds

\* createRoom without the seeded system message
NewRoomNoBanner(uniqueId, title, password) ==
  [id |-> uniqueId, title |-> title, password |-> password,
   messages |-> Arr(<<>>), memos |-> Arr(<<>>)]

\* The newRoom literal of createRoom
NewRoom(uniqueId, title, password) ==
  [id |-> uniqueId, title |-> title, password |-> password,
   messages |-> Arr(<<SystemMessage>>), memos |-> Arr(<<>>)]

\* createRoom that does not await saveRoom: the App gets the record at once
CreateRoomNoAwait(c, title, password) ==
  /\ CanCall(c)
  /\ \E uniqueId \in GenerateId :
       LET newRoom == NewRoom(uniqueId, title, password)
       IN /\ saveRoom(c, newRoom)
          /\ call' = [call EXCEPT ![c] = Saving("createRoom", newRoom, "none")]
          /\ app' = [app EXCEPT ![c] = RoomCreated(@, newRoom)]
          /\ usedIds' = usedIds \cup {uniqueId}
  /\ nops' = nops + 1
  /\ UNCHANGED <<cloud, config, flow, probe, showCloudSetup, file, effect,
                 remote, onStorage, onStorageLocal, onValue, valueEvt>>

\* handleCreateRoom: await createRoom(title, password), which awaits saveRoom
CreateRoom(c, title, password) ==
  /\ CanCall(c)
  /\ \E uniqueId \in GenerateId :
       LET newRoom == NewRoom(uniqueId, title, password)
       IN /\ saveRoom(c, newRoom)
          /\ call' = [call EXCEPT ![c] = Saving("createRoom", newRoom, "none")]
          /\ app' = [app EXCEPT ![c] = IF cloud THEN @
                                       ELSE RoomCreated(@, newRoom)]
          /\ usedIds' = usedIds \cup {uniqueId}
  /\ nops' = nops + 1
  /\ UNCHANGED <<cloud, config, flow, probe, showCloudSetup, file, effect,
                 remote, onStorage, onStorageLocal, onValue, valueEvt>>

\* ------------------------------------------------------------ importRoom
\* The guard of importRoom: !roomData || !roomData.id || !roomData.title
ImportRejected(roomData) ==
  roomData = Null \/ roomData.id = NoId \/ roomData.title = NoTitle

\* reader.onload of handleFileChange with the parsed file: importRoom(json),
\* which calls saveRoom without awaiting it, then the alert
ImportRoom(c, roomData) ==
  /\ CanCall(c)
  /\ IF ImportRejected(roomData)
     THEN /\ NoLocalWrite
          /\ call' = [call EXCEPT ![c] =
                        Settled("importRoom", "resolved", "false")]
          /\ app' = [app EXCEPT ![c].notice = "importInvalid"]
          /\ UNCHANGED usedIds
     ELSE /\ saveRoom(c, roomData)
          /\ call' = [call EXCEPT ![c] = Saving("importRoom", roomData, "true")]
          /\ app' = [app EXCEPT ![c].notice = "importOk"]
          /\ usedIds' = usedIds \cup {roomData.id}
  /\ nops' = nops + 1
  /\ UNCHANGED <<cloud, config, flow, probe, showCloudSetup, file, effect,
                 remote, onStorage, onStorageLocal, onValue, valueEvt>>

\* ------------------------------------------------------ handleExportRoom
\* An export that leaves the memos out of the file
ExportFileNoMemos(room) == [JsonClone(room) EXCEPT !.memos = Absent]

\* What JSON.parse yields later for the text JSON.stringify(room) that
\* handleExportRoom puts in the file
ExportFile(room) == JsonClone(room)

\* handleExportRoom(e, room) for the i-th room of the list that the
\* subscription s of the App was given last
HandleExportRoom(s, i) ==
  /\ sub[s].got /\ ~sub[s].disposed
  /\ i \in 1..Len(sub[s].last)
  /\ file' = ExportFile(sub[s].last[i])
  /\ fired' = NoFire
  /\ UNCHANGED <<cloud, config, flow, probe, showCloudSetup, effect,
                 localStore, remote, call, app, sub, onStorage,
                 onStorageLocal, onValue, storageEvt, valueEvt, usedIds,
                 nops>>

\* ------------------------------------------- addMessage, addMemo, deleteMemo
\* An update function that starts a record when there is none
AddMessageUpdateCreates(room, message) ==
  [room EXCEPT !.messages =
     Arr(Append(ObjectValues(IF Truthy(@) THEN @ ELSE Arr(<<>>)), message))]

\* The update function that addMessage hands to runTransaction
AddMessageUpdate(room, message) ==
  IF room # Null
  THEN [room EXCEPT !.messages =
          Arr(Append(ObjectValues(IF Truthy(@) THEN @ ELSE Arr(<<>>)),
                     message))]
  ELSE room

\* The update function that addMemo hands to runTransaction
AddMemoUpdate(room, memo) ==
  IF room # Null
  THEN [room EXCEPT !.memos =
          Arr(Append(ObjectValues(IF Truthy(@) THEN @ ELSE Arr(<<>>)), memo))]
  ELSE room

\* deleteMemo with the filter's test the wrong way round
DeleteMemoKeepsOnlyIt(room, memo) ==
  IF room # Null /\ Truthy(room.memos)
  THEN [room EXCEPT !.memos =
          Arr(SelectSeq(ObjectValues(@), LAMBDA m : m.id = memo.id))]
  ELSE room

\* The update function that deleteMemo hands to runTransaction
DeleteMemoUpdate(room, memo) ==
  IF room # Null /\ Truthy(room.memos)
  THEN [room EXCEPT !.memos =
          Arr(SelectSeq(ObjectValues(@), LAMBDA m : m.id # memo.id))]
  ELSE room

TxUpdate(name, room, arg) ==
  CASE name = "addMessage" -> AddMessageUpdate(room, arg)
    [] name = "addMemo" -> AddMemoUpdate(room, arg)
    [] name = "deleteMemo" -> DeleteMemoUpdate(room, arg)

\* A plain read-then-set in the place of the transaction: whatever the
\* function computed is written
TxBlindWrite(base, current) == TRUE

\* runTransaction commits the value its update function computed only when
\* the value the function ran on is still the one the server holds
TxMatches(base, current) == base = current

\* The else branches: read the collection, find the room, change it, save it.
\* push or filter on a field that is no array throws a TypeError.
LocalTx(c, name, roomId, arg) ==
  LET room == FindRoom(getLocalRooms, roomId)
      field == IF name = "addMessage" THEN room.messages ELSE room.memos
      done(ret) == call' = [call EXCEPT ![c] = Settled(name, "resolved", ret)]
  IN IF room = Null THEN NoLocalWrite /\ done("none")
     ELSE IF ~IsArray(field) THEN NoLocalWrite /\ done("threw")
     ELSE /\ saveRoom(c, TxUpdate(name, room, arg))
          /\ done("none")

\* addMessage, addMemo or deleteMemo called in client c.  In cloud mode the
\* update function first runs on what the client has cached for the room:
\* nothing, or the value the server holds now.
StartTx(c, name, roomId, arg) ==
  /\ CanCall(c)
  /\ IF cloud
     THEN /\ \E base \in {Null, remote[roomId]} :
               call' = [call EXCEPT ![c] =
                 [IdleCall EXCEPT !.name = name, !.rid = roomId, !.arg = arg,
                                  !.base = base, !.stage = "inflight"]]
          /\ NoLocalWrite
     ELSE LocalTx(c, name, roomId, arg)
  /\ nops' = nops + 1
  /\ UNCHANGED <<cloud, config, flow, probe, showCloudSetup, file, effect,
                 remote, app, onStorage, onStorageLocal, onValue,
                 valueEvt, usedIds>>

AddMessage(c, roomId, message) == StartTx(c, "addMessage", roomId, message)
AddMemo(c, roomId, memo) == StartTx(c, "addMemo", roomId, memo)
DeleteMemo(c, roomId, memo) == StartTx(c, "deleteMemo", roomId, memo)

\* The server accepts the transaction of client c
TxCommit(c) ==
  /\ cloud
  /\ call[c].stage = "inflight"
  /\ call[c].name \in TxNames
  /\ TxMatches(call[c].base, remote[call[c].rid])
  /\ RemoteWrite([remote EXCEPT ![call[c].rid] =
        RtdbStored(TxUpdate(call[c].name, call[c].base, call[c].arg))])
  /\ call' = [call EXCEPT ![c] = Settled(@.name, "resolved", @.ret)]
  /\ NoLocalWrite
  /\ UNCHANGED <<cloud, config, flow, probe, showCloudSetup, file, effect,
                 app, onStorage, onStorageLocal, onValue, usedIds,
                 nops>>

\* The server refuses it and sends the current value: the update function
\* runs again on that value
TxRetry(c) ==
  /\ cloud
  /\ call[c].stage = "inflight"
  /\ call[c].name \in TxNames
  /\ ~TxMatches(call[c].base, remote[call[c].rid])
  /\ call' = [call EXCEPT ![c].base = remote[call[c].rid]]
  /\ NoLocalWrite
  /\ UNCHANGED <<cloud, config, flow, probe, showCloudSetup, file, effect,
                 remote, app, onStorage, onStorageLocal, onValue,
                 valueEvt, usedIds, nops>>

\* The server rejects the transaction (no permission, too many retries) or
\* the client gives it up: nothing is written and the promise of
\* runTransaction, which nobody holds, rejects
TxFail(c) ==
  /\ cloud
  /\ call[c].stage = "inflight"
  /\ call[c].name \in TxNames
  /\ call' = [call EXCEPT ![c] = Failed(@.name, @.ret)]
  /\ app' = [app EXCEPT ![c] = AppOnFailure(@, call[c].name)]
  /\ NoLocalWrite
  /\ UNCHANGED <<cloud, config, flow, probe, showCloudSetup, file, effect,
                 remote, onStorage, onStorageLocal, onValue,
                 valueEvt, usedIds, nops>>

\* ------------------------------------------------- credentials and reload
\* The page of tab c1 is loaded anew while localStorage holds the
\* credentials stored: every module and component starts from its initial
\* state, initFirebase runs again, pending requests and the listeners of
\* the page are gone.  (cloud is the mode of the page of c1; the
\* specifications in which credentials change have no other client.)
Reload(stored) ==
  /\ config' = stored
  /\ cloud' = initFirebase(stored)
  /\ flow' = NoFlow
  /\ probe' = NoProbe
  /\ call' = [call EXCEPT !["c1"] = IdleCall]
  /\ app' = [app EXCEPT !["c1"] = NoApp]
  /\ sub' = [s \in Subs |-> NoSub]
  /\ onStorage' = {}
  /\ onStorageLocal' = {}
  /\ onValue' = {}
  /\ valueEvt' = [s \in Subs |-> FALSE]
  /\ storageEvt' = [storageEvt EXCEPT !["c1"] = FALSE]
  /\ fired' = NoFire
  /\ showCloudSetup' = FALSE
  /\ effect' = NoEffect
  /\ UNCHANGED <<localStore, remote, usedIds, nops, file>>

\* A step of the setup flow or of the probe that stays on the page
SamePage ==
  /\ fired' = NoFire
  /\ UNCHANGED <<cloud, config, localStore, remote, call, app, sub, onStorage,
                 onStorageLocal, onValue, storageEvt, valueEvt, usedIds, nops,
                 showCloudSetup, file, effect>>

\* confirmDisconnect: clearFirebaseConfig removes the credentials and
\* navigates to '/'.  The button is rendered in cloud mode only.
ConfirmDisconnect ==
  /\ cloud
  /\ Reload(NoConfig)

\* missingFields of handleSave
MissingFields(cfg) ==
  (IF cfg.apiKey THEN <<>> ELSE <<"apiKey">>)
  \o (IF cfg.projectId THEN <<>> ELSE <<"projectId">>)

\* What handleSave finds wrong with the text before any probe: the error it
\* shows, <<>> when the text is an object with apiKey and projectId
Rejection(text) ==
  CASE text.kind = "unparsable" -> <<"unrecognised">>
    [] text.kind = "notObject" -> <<"notObject">>
    [] OTHER -> IF MissingFields(text) # <<>>
                THEN <<"missing">> \o MissingFields(text) ELSE <<>>

\* Lines 50-61 with the answer to window.confirm taken as yes
WithDatabaseURLAssumed(cfg, answer) ==
  IF cfg.databaseURL # "none" THEN cfg
  ELSE [cfg EXCEPT !.databaseURL = "derived"]

\* Lines 50-61: the configuration with its databaseURL, the inferred one
\* when there was none and the user agreed; NoConfig when the user declined
WithDatabaseURL(cfg, answer) ==
  IF cfg.databaseURL # "none" THEN cfg
  ELSE IF answer THEN [cfg EXCEPT !.databaseURL = "derived"]
  ELSE NoConfig

\* The try block of testFirebaseConnection that sets no timeout
StartProbeNoTimer(cfg) ==
  CASE cfg.sdk = "initializeApp" ->
         [NoProbe EXCEPT !.pc = "done", !.outcome = "threw"]
    [] cfg.sdk = "getDatabase" ->
         [NoProbe EXCEPT !.pc = "cleanup", !.testApp = TRUE,
                         !.outcome = "threw"]
    [] OTHER ->
         [NoProbe EXCEPT !.pc = "waiting", !.testApp = TRUE,
                         !.listener = TRUE]

\* testFirebaseConnection(cfg) up to its first await.  When initializeApp
\* throws there is no app and the call is over; when getDatabase throws the
\* finally block deletes the app; otherwise the timer is armed, the
\* listener attached and the inner promise awaited.
StartProbe(cfg) ==
  CASE cfg.sdk = "initializeApp" ->
         [NoProbe EXCEPT !.pc = "done", !.outcome = "threw"]
    [] cfg.sdk = "getDatabase" ->
         [NoProbe EXCEPT !.pc = "cleanup", !.testApp = TRUE,
                         !.outcome = "threw"]
    [] OTHER ->
         [NoProbe EXCEPT !.pc = "waiting", !.testApp = TRUE, !.timer = TRUE,
                         !.listener = TRUE]

\* A probe whose inner promise settles and which then returns at once
EndTryNoFinally(p, outcome) ==
  IF p.pc # "waiting" THEN p
  ELSE [p EXCEPT !.outcome = outcome, !.pc = "done"]

\* The inner promise settles (a settled promise stays as it is); catch
\* re-throws, and finally calls deleteApp on the app and awaits it
EndTry(p, outcome) ==
  IF p.pc # "waiting" THEN p
  ELSE [p EXCEPT !.outcome = outcome, !.pc = "cleanup"]

\* A handleSave that goes on to onSave whatever the probe said
ProbePassedAlways(p) == TRUE

\* await testFirebaseConnection(config) returns instead of throwing
ProbePassed(p) == p.outcome = "connected"

\* handleSave after testFirebaseConnection has settled.  When it threw, the
\* error is shown.  Otherwise onSave(config): saveFirebaseConfig stores the
\* credentials and reloads; if setItem throws (no storage left) the catch
\* of handleSave shows that error.
Continue(p) ==
  IF ProbePassed(p)
  THEN \/ Reload(flow.config)
       \/ /\ flow' = [flow EXCEPT !.isTesting = FALSE,
                                   !.error = <<"setItem">>]
          /\ probe' = p
          /\ SamePage
  ELSE /\ flow' = [flow EXCEPT !.isTesting = FALSE,
                               !.error = <<"connFailed", p.outcome>>]
       /\ probe' = p
       /\ SamePage

\* The button of the lobby that sets showCloudSetup: the modal is mounted
\* with its initial state.  The button is rendered in local mode only.
\* (The model follows one probe at a time: the modal is opened again once
\* the probe of the previous one is over.)
OpenModal ==
  /\ ~cloud
  /\ ~showCloudSetup
  /\ probe.pc \notin {"waiting", "cleanup"}
  /\ showCloudSetup' = TRUE
  /\ flow' = NoFlow
  /\ probe' = NoProbe
  /\ fired' = NoFire
  /\ UNCHANGED <<cloud, config, localStore, remote, call, app, sub, onStorage,
                 onStorageLocal, onValue, storageEvt, valueEvt, usedIds, nops,
                 file, effect>>

\* onClose of the modal, from its X button, which is enabled also while a
\* test runs (the Cancel button is not).  The modal is unmounted; a
\* handleSave that awaits its probe goes on with what it holds.
CloseModal ==
  /\ showCloudSetup
  /\ showCloudSetup' = FALSE
  /\ fired' = NoFire
  /\ UNCHANGED <<cloud, config, flow, probe, localStore, remote, call, app,
                 sub, onStorage, onStorageLocal, onValue, storageEvt, valueEvt,
                 usedIds, nops, file, effect>>

\* handleSave with the text of the text area and the answer the user would
\* give to window.confirm.  The modal is offered in local mode only and its
\* button is disabled while a test runs.
HandleSave(text, answer) ==
  /\ ~cloud
  /\ showCloudSetup
  /\ ~flow.isTesting
  /\ IF Rejection(text) # <<>>
     THEN /\ flow' = [flow EXCEPT !.error = Rejection(text)]
          /\ probe' = probe
          /\ SamePage
     ELSE IF WithDatabaseURL(text, answer) = NoConfig
     THEN /\ flow' = [flow EXCEPT !.error = <<"noDatabaseURL">>]
          /\ probe' = probe
          /\ SamePage
     ELSE LET cfg == WithDatabaseURL(text, answer)
          IN IF StartProbe(cfg).pc = "done"
             THEN /\ flow' = [error |-> <<"connFailed", "threw">>,
                              isTesting |-> FALSE, config |-> cfg]
                  /\ probe' = StartProbe(cfg)
                  /\ SamePage
             ELSE /\ flow' = [error |-> <<>>, isTesting |-> TRUE,
                              config |-> cfg]
                  /\ probe' = StartProbe(cfg)
                  /\ SamePage

\* The listener at '.info/connected' gets a value.  On true it clears the
\* timer, detaches itself and resolves.
ProbeSnapshot(connected) ==
  /\ probe.listener
  /\ probe' = IF connected
              THEN [EndTry(probe, "connected") EXCEPT
                      !.seen = "true", !.timer = FALSE, !.listener = FALSE]
              ELSE [probe EXCEPT !.seen = "false"]
  /\ UNCHANGED flow
  /\ SamePage

\* The error callback of that listener: it clears the timer and rejects
ProbeListenerError ==
  /\ probe.listener
  /\ probe' = [EndTry(probe, "error") EXCEPT
                 !.timer = FALSE, !.listener = FALSE]
  /\ UNCHANGED flow
  /\ SamePage

\* The 5-second timer fires and rejects; the listener stays attached
ProbeTimeout ==
  /\ probe.timer
  /\ probe' = [EndTry(probe, "timeout") EXCEPT !.timer = FALSE]
  /\ UNCHANGED flow
  /\ SamePage

\* deleteApp(testApp) resolves: the app and its connection are gone;
\* testFirebaseConnection settles and handleSave continues
DeleteAppDone ==
  /\ probe.pc = "cleanup"
  /\ Continue([probe EXCEPT !.pc = "done", !.cleanup = "done",
                            !.testApp = FALSE, !.listener = FALSE])

\* deleteApp(testApp) rejects: the error is logged.  Whether the app is
\* still there is up to the SDK.
DeleteAppFail ==
  /\ probe.pc = "cleanup"
  /\ \E left \in BOOLEAN :
       Continue([probe EXCEPT !.pc = "done", !.cleanup = "failed",
                              !.testApp = left,
                              !.listener = left /\ probe.listener])

\* ------------------------------------------------- the App of tab c1
\* The identity of an object that is neither the one in currentRoom nor the
\* one the effect saw last: every delivery builds its rooms anew
Fresh(e) == CHOOSE t \in 1..3 : t # e.ref /\ t # e.deps

\* updatedCurrent of the callback is found: 'if (currentRoom)' holds for
\* the room the callback closes over and the collection has a room with
\* its id
UpdatesCurrent(e, a, rooms) ==
  /\ e.closure # NoId
  /\ FindRoom(rooms, e.closure) # Null

\* The App state after the callback of lines 47-57 got rooms (the rooms
\* state of the App is the collection the subscription was handed last)
AppCallback(e, a, rooms) ==
  IF UpdatesCurrent(e, a, rooms)
  THEN [a EXCEPT !.currentRoom = FindRoom(rooms, e.closure)]
  ELSE a

\* The identity in currentRoom after that callback
RefCallback(e, a, rooms) ==
  IF UpdatesCurrent(e, a, rooms) THEN [e EXCEPT !.ref = Fresh(e)] ELSE e

\* The effect runs: on mount, and after a render in which currentRoom is
\* not the object it was at the last run.  The cleanup of the last run
\* unsubscribes first, then subscribeToRooms is called with a callback that
\* closes over the currentRoom of this render; in local mode that callback
\* is called before subscribeToRooms returns.
AppEffect ==
  /\ effect.deps # effect.ref
  /\ LET e == [effect EXCEPT
                 !.deps = effect.ref,
                 !.closure = IF app["c1"].currentRoom = Null THEN NoId
                             ELSE app["c1"].currentRoom.id]
     IN IF cloud
        THEN /\ sub' = [sub EXCEPT !["s1"].made = TRUE,
                                   !["s1"].disposed = FALSE]
             /\ onValue' = onValue \cup {"s1"}
             /\ valueEvt' = [valueEvt EXCEPT !["s1"] = TRUE]
             /\ fired' = NoFire
             /\ effect' = e
             /\ UNCHANGED <<app, onStorage, onStorageLocal>>
        ELSE /\ sub' = [sub EXCEPT !["s1"] =
                          loadLocal([@ EXCEPT !.made = StoredParses,
                                              !.disposed = FALSE])]
             /\ fired' = [NoFire EXCEPT !["s1"] = Calls(1)]
             /\ onStorage' = IF StoredParses THEN onStorage \cup {"s1"}
                             ELSE onStorage \ {"s1"}
             /\ onStorageLocal' = IF StoredParses
                                  THEN onStorageLocal \cup {"s1"}
                                  ELSE onStorageLocal \ {"s1"}
             /\ app' = [app EXCEPT !["c1"] =
                          IF StoredParses
                          THEN AppCallback(e, @, getLocalRooms) ELSE @]
             /\ effect' = IF StoredParses
                          THEN RefCallback(e, app["c1"], getLocalRooms)
                          ELSE e
             /\ UNCHANGED <<onValue, valueEvt>>
  /\ UNCHANGED <<cloud, config, flow, probe, showCloudSetup, file,
                 localStore, remote, call, storageEvt, usedIds, nops>>

\* The value listener of the App's subscription gets an event
AppDeliverValue ==
  /\ cloud
  /\ "s1" \in onValue
  /\ valueEvt["s1"]
  /\ sub' = [sub EXCEPT !["s1"] = Invoke(@, CloudRooms(remote))]
  /\ valueEvt' = [valueEvt EXCEPT !["s1"] = FALSE]
  /\ fired' = [NoFire EXCEPT !["s1"] = 1]
  /\ app' = [app EXCEPT !["c1"] = AppCallback(effect, @, CloudRooms(remote))]
  /\ effect' = RefCallback(effect, app["c1"], CloudRooms(remote))
  /\ UNCHANGED <<cloud, config, flow, probe, showCloudSetup, file,
                 localStore, remote, call, onStorage, onStorageLocal,
                 onValue, storageEvt, usedIds, nops>>

\* The browser dispatches the storage event of a write made in another tab
\* to the handler of the App's subscription
AppDeliverStorage ==
  /\ ~cloud
  /\ storageEvt["c1"]
  /\ "s1" \in onStorage
  /\ StoredParses
  /\ sub' = [sub EXCEPT !["s1"] = loadLocal(@)]
  /\ fired' = [NoFire EXCEPT !["s1"] = Calls(1)]
  /\ storageEvt' = [storageEvt EXCEPT !["c1"] = FALSE]
  /\ app' = [app EXCEPT !["c1"] = AppCallback(effect, @, getLocalRooms)]
  /\ effect' = RefCallback(effect, app["c1"], getLocalRooms)
  /\ UNCHANGED <<cloud, config, flow, probe, showCloudSetup, file,
                 localStore, remote, call, onStorage, onStorageLocal,
                 onValue, valueEvt, usedIds, nops>>

\* handleJoinRoom in admin mode, or confirmJoin: the user enters the i-th
\* room of the lobby's list
HandleJoinRoom(i) ==
  /\ nops < MaxOps
  /\ app["c1"].currentRoom = Null
  /\ sub["s1"].got
  /\ i \in 1..Len(sub["s1"].last)
  /\ app' = [app EXCEPT !["c1"].currentRoom = sub["s1"].last[i],
                        !["c1"].currentUser = TRUE]
  /\ effect' = [effect EXCEPT !.ref = Fresh(effect)]
  /\ nops' = nops + 1
  /\ fired' = NoFire
  /\ UNCHANGED <<cloud, config, flow, probe, showCloudSetup, file,
                 localStore, remote, call, sub, onStorage, onStorageLocal,
                 onValue, storageEvt, valueEvt, usedIds>>

\* handleExitRoom, offered by the ChatInterface
HandleExitRoom ==
  /\ nops < MaxOps
  /\ app["c1"].currentRoom # Null /\ app["c1"].currentUser
  /\ app' = [app EXCEPT !["c1"].currentRoom = Null,
                        !["c1"].currentUser = FALSE]
  /\ effect' = [effect EXCEPT !.ref = 0]
  /\ nops' = nops + 1
  /\ fired' = NoFire
  /\ UNCHANGED <<cloud, config, flow, probe, showCloudSetup, file,
                 localStore, remote, call, sub, onStorage, onStorageLocal,
                 onValue, storageEvt, valueEvt, usedIds>>

\* ------------------------------------------------------------------ Next
\* The write operations that clients C may invoke, with their inputs
WriteOps(C, saves, imports, ids, pws, msgs, memos) ==
  \/ \E c \in C, room \in saves : SaveRoom(c, room)
  \/ \E c \in C, roomId \in ids : DeleteRoom(c, roomId)
  \/ \E c \in C, title \in {"t1"}, password \in pws :
       CreateRoom(c, title, password)
  \/ \E c \in C, roomData \in imports : ImportRoom(c, roomData)
  \/ \E c \in C, roomId \in ids, m \in msgs : AddMessage(c, roomId, m)
  \/ \E c \in C, roomId \in ids, k \in memos : AddMemo(c, roomId, k)
  \/ \E c \in C, roomId \in ids, k \in memos : DeleteMemo(c, roomId, k)

\* The remote backend answers the request a client has in flight
Backend(C) ==
  \/ \E c \in C : SetApply(c)
  \/ \E c \in C : SetFail(c)
  \/ \E c \in C : RemoveApply(c)
  \/ \E c \in C : RemoveFail(c)
  \/ \E c \in C : TxCommit(c)
  \/ \E c \in C : TxRetry(c)
  \/ \E c \in C : TxFail(c)

\* Subscriptions S are made and disposed of, and events reach them
SubOps(S) ==
  \/ \E s \in S : Subscribe(s)
  \/ \E s \in S : Dispose(s)
  \/ \E s \in S : DeliverValue(s)
  \/ \E c \in AllClients : DeliverStorage(c)

Messages == {Item(m, "normal") : m \in MsgIds}
Memos == {Item(k, "memo") : k \in MemoIds}

\* The storage layer used by two clients, one of them with a subscription
Next ==
  \/ WriteOps(Clients, SaveInputs, ImportInputs, RoomIds,
              {"undefined", "pw"}, {Item("m1", "normal")},
              {Item("k1", "memo")})
  \/ Backend(Clients)
  \/ SubOps({"s1"})

Spec == Init /\ [][Next]_vars

\* Every write operation with one input each
FewWrites ==
  WriteOps(Clients,
           {NewRoom("r1", "t2", "undefined")},
           {[id |-> "r1", title |-> "t1", password |-> "absent",
             messages |-> Arr(<<SystemMessage>>), memos |-> Absent]},
           {"r1"}, {"undefined"}, {Item("m1", "normal")},
           {Item("k1", "memo")})

\* Two subscriptions in one tab, writes from that tab and from another one
SubNext ==
  \/ FewWrites
  \/ Backend(Clients)
  \/ SubOps(Subs)

SubSpec == Init /\ [][SubNext]_vars

\* One subscription, with the events that are pending delivered in the end:
\* the backend's push and the browser's event loop do not starve a listener
FairNext ==
  \/ FewWrites
  \/ Backend(Clients)
  \/ SubOps({"s1"})

FairSpec ==
  /\ Init /\ [][FairNext]_vars
  /\ WF_vars(DeliverValue("s1"))
  /\ WF_vars(DeliverStorage("c1"))

\* Cloud mode with one room that exists already, as createRoom, addMessage
\* and addMemo leave it on the server
TxRooms ==
  {[id |-> "r1", title |-> "t1", password |-> "absent",
    messages |-> Arr(<<SystemMessage>>), memos |-> mm] :
     mm \in {Absent, Arr(<<Item("k2", "memo")>>),
             Arr(<<Item("k1", "memo"), Item("k2", "memo")>>)}}

TxInit ==
  /\ config = GoodConfig
  /\ cloud = initFirebase(config)
  /\ flow = NoFlow
  /\ showCloudSetup = FALSE
  /\ file = Null
  /\ effect = NoEffect
  /\ probe = NoProbe
  /\ localStore = <<>>
  /\ \E room \in TxRooms : remote = [r \in RoomIds |->
                                      IF r = room.id THEN room ELSE Null]
  /\ call = [c \in AllClients |-> IdleCall]
  /\ app = [c \in AllClients |-> NoApp]
  /\ sub = [s \in Subs |-> NoSub]
  /\ onStorage = {}
  /\ onStorageLocal = {}
  /\ onValue = {}
  /\ storageEvt = [c \in AllClients |-> FALSE]
  /\ valueEvt = [s \in Subs |-> FALSE]
  /\ fired = NoFire
  /\ usedIds = {"r1"}
  /\ nops = 0

\* Up to three clients race with addMessage, addMemo and deleteMemo
TxNext ==
  \/ \E c \in AllClients, roomId \in RoomIds, m \in Messages :
       AddMessage(c, roomId, m)
  \/ \E c \in AllClients, roomId \in RoomIds, k \in Memos :
       AddMemo(c, roomId, k)
  \/ \E c \in AllClients, roomId \in RoomIds, k \in Memos :
       DeleteMemo(c, roomId, k)
  \/ \E c \in AllClients : TxCommit(c)
  \/ \E c \in AllClients : TxRetry(c)

TxSpec == TxInit /\ [][TxNext]_vars

\* One subscription whose reads can fail: the value listener is cancelled,
\* or the stored collection is not JSON
ReadNext ==
  \/ FewWrites
  \/ Backend(Clients)
  \/ SubOps({"s1"})
  \/ ListenerError("s1")
  \/ Corrupt

ReadSpec == Init /\ [][ReadNext]_vars

\* What handleSave may be given: a text that does not parse, one that is no
\* object, and objects with or without apiKey, projectId and databaseURL on
\* which the SDK throws or not
ConfigTexts ==
  {UnparsableConfig, Config("notObject", FALSE, FALSE, "none", "ok")} \cup
  {Config("object", a, p, u, k) :
     a \in BOOLEAN, p \in BOOLEAN, u \in {"none", "given"}, k \in SdkOutcomes}

\* What localStorage may hold under FIREBASE_CONFIG_KEY when the page is
\* first loaded
StoredConfigs ==
  {NoConfig, UnparsableConfig} \cup
  {Config("object", TRUE, TRUE, "given", k) : k \in SdkOutcomes}

SetupInit ==
  /\ config \in StoredConfigs
  /\ cloud = initFirebase(config)
  /\ flow = NoFlow
  /\ showCloudSetup = FALSE
  /\ file = Null
  /\ effect = NoEffect
  /\ probe = NoProbe
  /\ localStore = <<>>
  /\ remote = [r \in RoomIds |-> Null]
  /\ call = [c \in AllClients |-> IdleCall]
  /\ app = [c \in AllClients |-> NoApp]
  /\ sub = [s \in Subs |-> NoSub]
  /\ onStorage = {}
  /\ onStorageLocal = {}
  /\ onValue = {}
  /\ storageEvt = [c \in AllClients |-> FALSE]
  /\ valueEvt = [s \in Subs |-> FALSE]
  /\ fired = NoFire
  /\ usedIds = {}
  /\ nops = 0

\* The setup flow given the texts T, its probe, and the disconnect button
SetupOps(T) ==
  \/ \E text \in T, answer \in BOOLEAN : HandleSave(text, answer)
  \/ \E connected \in BOOLEAN : ProbeSnapshot(connected)
  \/ ProbeListenerError
  \/ ProbeTimeout
  \/ DeleteAppDone
  \/ DeleteAppFail
  \/ ConfirmDisconnect
  \/ OpenModal

\* One page on which the user connects to and disconnects from the cloud
SetupNext ==
  \/ SetupOps(ConfigTexts)
  \/ CloseModal

SetupSpec == SetupInit /\ [][SetupNext]_vars

\* One page that stores rooms, subscribes, and connects to and disconnects
\* from the cloud
ModeNext ==
  \/ WriteOps({"c1"},
              {NewRoom("r1", "t2", "undefined")},
              {[id |-> "r1", title |-> "t1", password |-> "absent",
                messages |-> Arr(<<SystemMessage>>), memos |-> Absent]},
              {"r1"}, {"undefined"}, {Item("m1", "normal")},
              {Item("k1", "memo")})
  \/ Backend({"c1"})
  \/ Subscribe("s1")
  \/ Dispose("s1")
  \/ DeliverValue("s1")
  \/ SetupOps({Config("object", TRUE, TRUE, "none", "ok")})

ModeSpec == SetupInit /\ [][ModeNext]_vars

\* One tab that creates and changes rooms, exports a room of the list its
\* subscription was given, and imports the file it exported last
RoundNext ==
  \/ WriteOps({"c1"}, {NewRoom("r1", "t2", "undefined")},
              {file} \ {Null}, {"r1"}, {"pw"},
              {Item("m1", "normal")}, {Item("k1", "memo")})
  \/ Backend({"c1"})
  \/ Subscribe("s1")
  \/ Dispose("s1")
  \/ DeliverValue("s1")
  \/ \E i \in 1..Len(IdOrder) : HandleExportRoom("s1", i)

RoundSpec == Init /\ [][RoundNext]_vars

\* The App of tab c1 with its room subscription, a user who enters and
\* leaves rooms, and another tab or client that writes
AppNext ==
  \/ AppEffect
  \/ AppDeliverValue
  \/ AppDeliverStorage
  \/ \E i \in 1..Len(IdOrder) : HandleJoinRoom(i)
  \/ HandleExitRoom
  \/ WriteOps({"c2"}, {NewRoom("r1", "t2", "undefined")},
              {[id |-> "r1", title |-> "t1", password |-> "absent",
                messages |-> Arr(<<SystemMessage>>), memos |-> Absent]},
              {"r1"}, {"undefined"}, {Item("m1", "normal")},
              {Item("k1", "memo")})
  \/ Backend({"c2"})

\* React runs an effect whose dependency changed, the backend's push and the
\* browser's event loop do not starve a listener
AppFairSpec ==
  /\ Init /\ [][AppNext]_vars
  /\ WF_vars(AppEffect)
  /\ WF_vars(AppDeliverValue)
  /\ WF_vars(AppDeliverStorage)

\* Files whose room has a password, memos and two messages, or a password
\* that is null and no memos property
WireImports ==
  {[id |-> "r1", title |-> "t1", password |-> "pw",
    messages |-> Arr(<<SystemMessage, Item("m1", "normal")>>),
    memos |-> Arr(<<Item("k1", "memo")>>)],
   [id |-> "r1", title |-> "t1", password |-> "null",
    messages |-> Arr(<<SystemMessage>>), memos |-> Absent]}

\* Rooms saved, created with and without password, and imported from such
\* files by two clients
WireNext ==
  \/ WriteOps(Clients, {NewRoom("r1", "t2", "undefined")}, WireImports,
              {"r1"}, {"undefined", "pw"}, {Item("m1", "normal")},
              {Item("k1", "memo")})
  \/ Backend(Clients)

WireSpec == Init /\ [][WireNext]_vars

\* The timer of a probe fires unless it is cleared, and deleteApp ends
SetupFairSpec ==
  /\ SetupInit /\ [][SetupNext]_vars
  /\ WF_vars(ProbeTimeout)
  /\ WF_vars(DeleteAppDone \/ DeleteAppFail)


\* ================================================================ claims
IsPrefix(s, t) == Len(s) <= Len(t) /\ SubSeq(t, 1, Len(s)) = s
MessagesOf(room) == ObjectValues(room.messages)
MemosOf(room) == ObjectValues(room.memos)

\* Client c's transaction named name on an existing room r is accepted in
\* this step
Commits(c, name, r) ==
  /\ TxCommit(c)
  /\ call[c].name = name
  /\ call[c].rid = r
  /\ remote[r] # Null

\* C1: in cloud mode concurrent addMessage calls on one existing room lose
\* nothing.  Every step keeps the room's message sequence as a prefix of the
\* new one, and the step that completes an addMessage appends exactly its
\* message to what the server holds at that moment; so once two racing calls
\* have completed, both messages and all earlier ones are there, in the
\* order of completion.
C1_NoLostMessage ==
  [][\A r \in RoomIds :
       /\ remote[r] # Null => remote'[r] # Null
       /\ IsPrefix(MessagesOf(remote[r]), MessagesOf(remote'[r]))
       /\ \A c \in AllClients :
            Commits(c, "addMessage", r) =>
              MessagesOf(remote'[r]) =
                Append(MessagesOf(remote[r]), call[c].arg)]_vars

\* One addMessage has completed while another, started on the value that the
\* first one replaced, is still in flight
C1_Witness ==
  \E c, d \in AllClients :
    /\ call[c].name = "addMessage" /\ call[c].stage = "resolved"
    /\ call[d].name = "addMessage" /\ call[d].stage = "inflight"
    /\ remote[call[d].rid] # Null
    /\ call[d].base # Null
    /\ call[d].base # remote[call[d].rid]
    /\ Len(MessagesOf(remote[call[d].rid])) = 2

\* C2: in cloud mode addMemo and deleteMemo are atomic steps on the room
\* record.  The step that completes addMemo(m1) appends m1 to the memos the
\* server holds then and leaves the messages alone; the step that completes
\* deleteMemo(m2) removes exactly the memos with that id and leaves the
\* messages alone; a completing addMessage leaves the memos alone; no other
\* step changes the room.  So for every interleaving the result has m1, has
\* no m2, keeps every other memo and every appended message.
C2_AtomicMemoSteps ==
  [][\A r \in RoomIds :
       /\ \A c \in AllClients :
            /\ Commits(c, "addMemo", r) =>
                 /\ MemosOf(remote'[r]) =
                      Append(MemosOf(remote[r]), call[c].arg)
                 /\ MessagesOf(remote'[r]) = MessagesOf(remote[r])
            /\ Commits(c, "deleteMemo", r) =>
                 /\ MemosOf(remote'[r]) =
                      SelectSeq(MemosOf(remote[r]),
                                LAMBDA m : m.id # call[c].arg.id)
                 /\ MessagesOf(remote'[r]) = MessagesOf(remote[r])
            /\ Commits(c, "addMessage", r) =>
                 MemosOf(remote'[r]) = MemosOf(remote[r])
       /\ (\A c \in AllClients : ~TxCommit(c)) => remote'[r] = remote[r]]_vars

\* addMemo(k1) has completed on a room that had k2, while deleteMemo(k2) and
\* addMessage, both started on the room as it was before, are in flight
C2_Witness ==
  \E c, d, e \in AllClients :
    /\ call[c].name = "addMemo" /\ call[c].stage = "resolved"
    /\ call[d].name = "deleteMemo" /\ call[d].stage = "inflight"
    /\ call[d].arg.id = "k2" /\ call[d].rid = "r1"
    /\ call[e].name = "addMessage" /\ call[e].stage = "inflight"
    /\ call[e].rid = "r1"
    /\ call[d].base # Null /\ call[d].base # remote["r1"]
    /\ MemosOf(remote["r1"]) = <<Item("k2", "memo"), Item("k1", "memo")>>

\* C3: every record that a subscribeToRooms callback is given has messages
\* and memos that are arrays, in both modes.
C3_DeliveredAreSequences ==
  \A s \in Subs :
    sub[s].got =>
      \A i \in 1..Len(sub[s].last) :
        IsArray(sub[s].last[i].messages) /\ IsArray(sub[s].last[i].memos)

Live(s) == sub[s].made /\ ~sub[s].disposed
UpToDate(s) == sub[s].got /\ sub[s].last = CurrentRooms

\* C4: a subscription's callback gets the current full collection first (in
\* local mode inside subscribeToRooms itself, exactly once; in cloud mode
\* with the listener's first event; the empty sequence when there is no
\* data), and while the subscription is not disposed of, every later change
\* of the data is followed by an invocation with the collection as changed.
C4_Delivery ==
  /\ [][\A s \in Subs :
          (Subscribe(s) /\ ~cloud) =>
            /\ fired'[s] = 1
            /\ sub'[s].got
            /\ sub'[s].last = localStore]_vars
  /\ [](\A s \in Subs :
          (sub[s].got /\ CurrentRooms = <<>> /\ UpToDate(s)) =>
            sub[s].last = <<>>)
  /\ \A s \in Subs : Live(s) ~> (~Live(s) \/ UpToDate(s))

\* A write has just invoked the callback of a subscription that had been
\* given another collection before, and it now holds the current rooms
C4_Witness ==
  \E s \in Subs :
    /\ Live(s)
    /\ fired[s] > 0
    /\ UpToDate(s)
    /\ Len(sub[s].last) > 0
    /\ \E c \in Clients : call[c].name \in TxNames /\ call[c].stage = "resolved"
    /\ \E i \in 1..Len(sub[s].last) : Len(MessagesOf(sub[s].last[i])) > 1

\* C5: after the disposer was called the callback is not invoked again,
\* whatever is written or notified afterwards; calling the disposer again
\* changes nothing, and a disposer never touches another subscription.
C5_Disposal ==
  /\ [](\A s \in Subs : sub[s].disposed => fired[s] = 0)
  /\ [][\A s \in Subs :
          /\ sub[s].disposed => sub'[s] = sub[s]
          /\ Dispose(s) =>
               \A o \in Subs \ {s} :
                 /\ sub'[o] = sub[o]
                 /\ (o \in onStorage') = (o \in onStorage)
                 /\ (o \in onStorageLocal') = (o \in onStorageLocal)
                 /\ (o \in onValue') = (o \in onValue)
                 /\ valueEvt'[o] = valueEvt[o]
          /\ (Dispose(s) /\ sub[s].disposed) =>
               UNCHANGED <<cloud, config, flow, probe, showCloudSetup, file,
                           effect, localStore, remote, call, app, sub,
                           onStorage, onStorageLocal, onValue, storageEvt,
                           valueEvt, usedIds, nops>>]_vars

\* One subscription was disposed of before the data changed; a write has
\* just reached the other subscription and not the disposed one
C5_Witness ==
  \E s, o \in Subs :
    /\ sub[s].disposed
    /\ sub[s].got
    /\ sub[s].last # CurrentRooms
    /\ Live(o)
    /\ fired[o] > 0
    /\ UpToDate(o)

\* Two room values that read the same: a property that is undefined reads
\* like one that is missing
SameRoom(a, b) == JsonClone(a) = JsonClone(b)
\* A remote record and a room that are delivered as the same record
SameDelivered(stored, room) ==
  SanitizeRemoteRoom(stored) = SanitizeRemoteRoom(JsonClone(room))
IdCount(rooms, id) == Cardinality({i \in 1..Len(rooms) : rooms[i].id = id})

\* C6: saveRoom is an idempotent upsert keyed by the room identifier.  In
\* local mode the collection then holds exactly one record with that id,
\* equal to the room, replaced in place when it existed and appended
\* otherwise, every other record as before, and saving a room that is stored
\* already changes nothing; in cloud mode the write puts the room at its
\* identifier and touches no other one.  No local collection ever holds two
\* records with one identifier.
C6_SaveRoomUpsert ==
  /\ [](\A i, j \in 1..Len(localStore) :
          localStore[i].id = localStore[j].id => i = j)
  /\ [][/\ \A c \in Clients, room \in SaveInputs :
            (SaveRoom(c, room) /\ ~cloud) =>
              LET k == FindIndex(localStore, room.id)
              IN /\ IdCount(localStore', room.id) = 1
                 /\ SameRoom(FindRoom(localStore', room.id), room)
                 /\ IF k > 0
                    THEN /\ Len(localStore') = Len(localStore)
                         /\ FindIndex(localStore', room.id) = k
                         /\ \A i \in 1..Len(localStore) :
                              i # k => localStore'[i] = localStore[i]
                    ELSE /\ Len(localStore') = Len(localStore) + 1
                         /\ FindIndex(localStore', room.id) = Len(localStore')
                         /\ \A i \in 1..Len(localStore) :
                              localStore'[i] = localStore[i]
                 /\ (k > 0 /\ SameRoom(localStore[k], room)) =>
                      localStore' = localStore
        /\ \A c \in Clients :
            (SetApply(c) /\ call[c].name = "saveRoom") =>
              /\ SameDelivered(remote'[call[c].rid], call[c].room)
              /\ \A r \in RoomIds \ {call[c].rid} : remote'[r] = remote[r]
              /\ SameDelivered(remote[call[c].rid], call[c].room) =>
                   CloudRooms(remote') = CloudRooms(remote)]_vars

\* Local mode: one tab created two rooms and then saved the first one again,
\* which replaced it where it was and left the second one alone
C6_Witness ==
  /\ ~cloud
  /\ nops = 3
  /\ call["c1"].name = "saveRoom" /\ call["c1"].stage = "resolved"
  /\ call["c2"].name = "none"
  /\ Len(localStore) = 2
  /\ localStore[1].title = "t2"
  /\ localStore[2].password = "pw"

\* C7: deleteRoom removes the room with the given id and nothing else; on an
\* id that no room has, the collection stays as it is and the call still
\* succeeds, so a second deleteRoom(id) ends like the first.
C7_DeleteRoom ==
  [][/\ \A c \in Clients, id \in RoomIds :
          (DeleteRoom(c, id) /\ ~cloud) =>
            /\ FindIndex(localStore', id) = 0
            /\ localStore' = SelectSeq(localStore, LAMBDA r : r.id # id)
            /\ FindIndex(localStore, id) = 0 => localStore' = localStore
            /\ call'[c].stage = "resolved"
     /\ \A c \in Clients :
          RemoveApply(c) =>
            /\ remote'[call[c].rid] = Null
            /\ \A r \in RoomIds \ {call[c].rid} : remote'[r] = remote[r]
            /\ remote[call[c].rid] = Null => remote' = remote
            /\ call'[c].stage = "resolved"]_vars

\* Local mode: one tab created both rooms and deleted one; the other is
\* still there
C7_Witness ==
  /\ ~cloud
  /\ nops = 3
  /\ call["c1"].name = "deleteRoom" /\ call["c1"].stage = "resolved"
  /\ call["c2"].name = "none"
  /\ usedIds = RoomIds
  /\ Len(localStore) = 1
  /\ Len(MessagesOf(localStore[1])) = 1

\* createRoom called by client c resolves in this step
CreateResolves(c) ==
  \/ ~cloud /\ \E title \in Titles, password \in {"undefined", "pw"} :
                 CreateRoom(c, title, password)
  \/ SetApply(c) /\ call[c].name = "createRoom"

\* C8: createRoom hands the record to the App only when the write has
\* completed: while the write is in flight the App has no such room; at the
\* step where createRoom resolves the backend holds the room and the App
\* takes it as current room with a session; when the write fails the App
\* keeps its current room and session as they were and shows the failure.
C8_CreateAwaitsWrite ==
  /\ [](\A c \in Clients :
          (call[c].name = "createRoom" /\ call[c].stage = "inflight") =>
            app[c].currentRoom.id # call[c].rid)
  /\ [][\A c \in Clients :
          /\ CreateResolves(c) =>
               /\ app'[c].currentUser
               /\ app'[c].currentRoom # Null
               /\ \E i \in 1..Len(CurrentRooms') :
                    SameDelivered(CurrentRooms'[i], app'[c].currentRoom)
          /\ (SetFail(c) /\ call[c].name = "createRoom") =>
               /\ app'[c].currentRoom = app[c].currentRoom
               /\ app'[c].currentUser = app[c].currentUser
               /\ app'[c].notice = "createFailed"
               /\ remote' = remote]_vars

\* Cloud mode: a createRoom has resolved and the App is in the room, which
\* the server holds
C8_Witness ==
  \E c \in Clients :
    /\ cloud
    /\ call[c].name = "createRoom" /\ call[c].stage = "resolved"
    /\ app[c].currentUser
    /\ app[c].currentRoom # Null
    /\ remote[app[c].currentRoom.id] # Null

\* C9: the record that createRoom makes has an identifier that no room
\* created, saved or imported before has, exactly one message, which is of
\* type 'system', and no memos; that record is what the caller gets.
C9_CreatedRecord ==
  [][\A c \in Clients :
       /\ \A title \in Titles, password \in {"undefined", "pw"} :
            CreateRoom(c, title, password) =>
              LET r == IF cloud THEN call'[c].room ELSE app'[c].currentRoom
              IN /\ r.id \in RoomIds \ usedIds
                 /\ FindIndex(CurrentRooms, r.id) = 0
                 /\ \A d \in AllClients :
                      call[d].room # Null => call[d].room.id # r.id
                 /\ r.title = title /\ r.password = password
                 /\ IsArray(r.messages)
                 /\ Len(r.messages.items) = 1
                 /\ r.messages.items[1].type = "system"
                 /\ r.memos = Arr(<<>>)
       /\ (SetApply(c) /\ call[c].name = "createRoom") =>
            app'[c].currentRoom = call[c].room]_vars

\* Both identifiers were handed out to rooms of createRoom, which are stored
\* with their system message
C9_Witness ==
  /\ Len(CurrentRooms) = 2
  /\ CurrentRooms[1].id # CurrentRooms[2].id
  /\ \A i \in 1..2 : /\ CurrentRooms[i].password = "pw"
                     /\ MessagesOf(CurrentRooms[i]) = <<SystemMessage>>
  /\ \E c \in Clients :
       /\ call[c].name = "createRoom" /\ call[c].stage = "resolved"
       /\ app[c].currentRoom # Null

\* C10: importRoom returns false and leaves the store untouched when the
\* object is absent or has no id or title; otherwise it returns true and the
\* record is stored when it returns; it never throws.
C10_ImportContract ==
  [][\A c \in Clients, roomData \in ImportInputs :
       ImportRoom(c, roomData) =>
         /\ call'[c].ret \in {"true", "false"}
         /\ IF roomData = Null \/ roomData.id = NoId \/ roomData.title = NoTitle
            THEN /\ call'[c].ret = "false"
                 /\ localStore' = localStore
                 /\ remote' = remote
            ELSE /\ call'[c].ret = "true"
                 /\ \E i \in 1..Len(CurrentRooms') :
                      SameDelivered(CurrentRooms'[i], roomData)]_vars

\* C11: in cloud mode, when the remote write or delete of saveRoom,
\* deleteRoom, addMessage, addMemo or deleteMemo fails, the operation ends
\* for its caller with a rejection that the caller can catch, and the remote
\* data is as it was.
C11_WriteFailurePropagates ==
  [][\A c \in Clients :
       ((SetFail(c) /\ call[c].name = "saveRoom") \/ RemoveFail(c)
          \/ TxFail(c)) =>
         /\ call'[c].stage = "rejected"
         /\ remote' = remote]_vars

\* C12: in the App a failing room creation, room deletion or room import
\* ends with a failure notice: never with the success notice still shown
\* and never with a promise rejection that nothing handles.
C12_FailuresAreReported ==
  [][\A c \in Clients :
       ((SetFail(c) /\ call[c].name \in {"createRoom", "importRoom"})
          \/ RemoveFail(c)) =>
         /\ app'[c].notice \in {"createFailed", "deleteFailed", "importFailed"}
         /\ ~app'[c].unhandled]_vars

\* C13: a failing read is only logged.  No step raises an exception out of
\* subscribeToRooms or out of its change handler, and a step at which a read
\* fails calls no callback and leaves the subscriber with the collection it
\* was given last.
C13_ReadFailuresAreLogged ==
  [][\A s \in Subs :
       /\ sub'[s].error # "thrown"
       /\ sub'[s].error # sub[s].error =>
            /\ fired'[s] = 0
            /\ sub'[s].got = sub[s].got
            /\ sub'[s].last = sub[s].last]_vars

\* The stored credentials are such that no connection handle can be made
\* of them
Unusable(stored) ==
  \/ stored.kind = "unparsable"
  \/ stored.kind = "object" /\ stored.sdk # "ok"

\* C14: when the stored credentials do not parse, or initializeApp or
\* getDatabase throws on them, the adapter is in local mode, and every
\* operation then does what it does in local mode: it reads and writes the
\* local collection, starts no remote request, attaches no remote listener,
\* and ends without a rejection.
C14_FallsBackToLocal ==
  /\ [](Unusable(config) => ~cloud)
  /\ [][Unusable(config) /\ Unusable(config') =>
          /\ remote' = remote
          /\ onValue' = {}
          /\ \A c \in Clients :
               /\ call'[c].stage \in {"idle", "resolved"}
               /\ ~app'[c].unhandled
          /\ \A s \in Subs :
               /\ Subscribe(s) => s \in onStorage' /\ s \in onStorageLocal'
               /\ fired'[s] > 0 => sub'[s].last = localStore']_vars

\* Credentials that cannot be used are stored, and the page has saved a
\* room locally and been handed it by its subscription
C14_Witness ==
  /\ Unusable(config)
  /\ config.kind = "object"
  /\ ~cloud
  /\ Len(localStore) = 1
  /\ call["c1"].name = "createRoom" /\ call["c1"].stage = "resolved"
  /\ sub["s1"].got
  /\ sub["s1"].last = localStore

\* The page starts from scratch in this step
PageReloaded ==
  /\ flow' = NoFlow
  /\ probe' = NoProbe
  /\ call'["c1"] = IdleCall
  /\ app'["c1"] = NoApp
  /\ sub' = [s \in Subs |-> NoSub]
  /\ onStorage' = {} /\ onStorageLocal' = {} /\ onValue' = {}

\* C15: the mode is the one that initFirebase chose from the stored
\* credentials when the page was loaded.  In cloud mode no step changes the
\* local collection, has local listeners or hands a subscriber anything but
\* the remote rooms; in local mode no step changes the remote node, has a
\* remote listener or hands a subscriber anything but the local collection.
\* The mode and the stored credentials change only in a step that reloads
\* the page.
C15_BackendFixed ==
  /\ [](cloud = initFirebase(config))
  /\ [][/\ (cloud' # cloud \/ config' # config) => PageReloaded
        /\ cloud =>
             /\ localStore' = localStore
             /\ onStorage' = {} /\ onStorageLocal' = {}
             /\ \A s \in Subs :
                  fired'[s] > 0 => sub'[s].last = CloudRooms(remote')
        /\ ~cloud =>
             /\ remote' = remote
             /\ onValue' = {}
             /\ \A c \in Clients : call'[c].stage # "inflight"
             /\ \A s \in Subs :
                  fired'[s] > 0 => sub'[s].last = localStore']_vars

\* The page stored a room locally, was then connected to the cloud through
\* the setup flow, stored another room there and was handed it, while the
\* local collection still is what it was
C15_Witness ==
  /\ cloud
  /\ config.databaseURL = "derived"
  /\ Len(localStore) = 1
  /\ call["c1"].name = "createRoom" /\ call["c1"].stage = "resolved"
  /\ sub["s1"].got
  /\ Len(sub["s1"].last) = 1
  /\ sub["s1"].last = CloudRooms(remote)
  /\ sub["s1"].last[1].id # localStore[1].id

\* C16: handleSave on an object that has apiKey and projectId and no
\* databaseURL, when the user declines the inferred URL, shows the error
\* about the missing databaseURL, starts no probe, stores nothing and
\* reloads nothing.
C16_DeclinedUrl ==
  [][\A text \in ConfigTexts :
       (/\ text.kind = "object" /\ text.apiKey /\ text.projectId
        /\ text.databaseURL = "none"
        /\ HandleSave(text, FALSE)) =>
         /\ flow'.error = <<"noDatabaseURL">>
         /\ ~flow'.isTesting
         /\ probe' = probe
         /\ config' = config
         /\ cloud' = cloud]_vars

\* The user has declined the URL after an earlier attempt had timed out:
\* the error is shown and the earlier probe is the last one
C16_Witness ==
  /\ flow.error = <<"noDatabaseURL">>
  /\ ~flow.isTesting
  /\ probe.pc = "done"
  /\ probe.outcome = "timeout"
  /\ config = NoConfig

\* The error that handleSave must show for a text before any probe
ExpectedError(text, answer) ==
  IF text.kind = "unparsable" THEN <<"unrecognised">>
  ELSE IF text.kind = "notObject" THEN <<"notObject">>
  ELSE IF ~text.apiKey /\ ~text.projectId
  THEN <<"missing", "apiKey", "projectId">>
  ELSE IF ~text.apiKey THEN <<"missing", "apiKey">>
  ELSE IF ~text.projectId THEN <<"missing", "projectId">>
  ELSE IF text.databaseURL = "none" /\ ~answer THEN <<"noDatabaseURL">>
  ELSE <<>>

\* C17: credentials are stored, with the reload, only at the end of a probe
\* that resolved, and a probe resolves only after its listener saw true.
\* handleSave itself never stores anything: on a text that does not parse,
\* lacks apiKey or projectId (exactly the missing ones are named) or whose
\* inferred URL is declined it shows the error and starts nothing; a probe
\* that ends with an error or the timeout leaves the error shown and the
\* credentials as they were.
C17_PersistAfterProbe ==
  /\ [](probe.outcome = "connected" => probe.seen = "true")
  /\ [][/\ (config' # config /\ config' # NoConfig) =>
             /\ probe.pc = "cleanup"
             /\ probe.outcome = "connected"
             /\ probe.seen = "true"
             /\ config' = flow.config
             /\ PageReloaded
        /\ \A text \in ConfigTexts, answer \in BOOLEAN :
             HandleSave(text, answer) =>
               /\ config' = config
               /\ ExpectedError(text, answer) # <<>> =>
                    /\ flow'.error = ExpectedError(text, answer)
                    /\ probe' = probe
        /\ ((DeleteAppDone \/ DeleteAppFail)
              /\ probe.outcome # "connected") =>
             /\ config' = config
             /\ flow'.error = <<"connFailed", probe.outcome>>
             /\ ~flow'.isTesting]_vars

\* Credentials whose URL was inferred are stored and in use: they can only
\* have come through the flow
C17_Witness ==
  /\ config.kind = "object"
  /\ config.databaseURL = "derived"
  /\ cloud
  /\ flow = NoFlow

\* C18: a probe that has started settles: it does not wait for ever, also
\* when its listener never sees true; and when it has settled it has
\* resolved after true was seen or rejected after an error, the timeout or
\* an exception of the SDK.
C18_ProbeSettles ==
  /\ (probe.pc \in {"waiting", "cleanup"}) ~> (probe.pc \in {"done", "idle"})
  /\ [](probe.pc = "done" =>
          probe.outcome \in {"connected", "error", "timeout", "threw"})

\* A probe whose listener never saw true has ended with the timeout
C18_Witness ==
  /\ probe.pc = "done"
  /\ probe.outcome = "timeout"
  /\ probe.seen # "true"
  /\ flow.error = <<"connFailed", "timeout">>

C20_SaveRoomReplaces ==
  [][\A c \in Clients :
       (SetApply(c) /\ call[c].name = "saveRoom") =>
         /\ remote'[call[c].rid] = RtdbStored(JsonClone(call[c].room))
         /\ remote[call[c].rid] # Null =>
              MessagesOf(remote'[call[c].rid]) = MessagesOf(call[c].room)
         /\ \A r \in RoomIds \ {call[c].rid} : remote'[r] = remote[r]]_vars

\* A subscriber was handed the room with an appended message, and a
\* saveRoom that has resolved since has left the room without it
C20_Witness ==
  /\ cloud
  /\ \E c \in Clients :
       call[c].name = "saveRoom" /\ call[c].stage = "resolved"
  /\ sub["s1"].got
  /\ Len(sub["s1"].last) = 1
  /\ Len(MessagesOf(sub["s1"].last[1])) = 2
  /\ remote[sub["s1"].last[1].id] # Null
  /\ MessagesOf(remote[sub["s1"].last[1].id]) = <<SystemMessage>>

\* C28: once the user has closed the cloud-setup dialog while its probe is
\* in flight, the flow is cancelled: from then on, until the dialog is
\* opened again, no credentials are stored and the page is not reloaded,
\* whatever the probe finds.
C28_CloseCancels ==
  [][(~showCloudSetup /\ probe.pc \in {"waiting", "cleanup"}) =>
       /\ config' = config
       /\ cloud' = cloud
       /\ ~PageReloaded]_vars

\* The value that saveRoom hands to set for the call that client c has in
\* flight: sanitizedRoom of line 179
Sent(c) == JsonClone(call[c].room)

\* C21 as stated: in cloud mode the value saveRoom transmits has no leaf
\* that is null or undefined, whatever room object was passed in, imported
\* ones included.
C21_NoNullOrUndefinedSent ==
  \A c \in Clients :
    (cloud /\ call[c].stage = "inflight"
       /\ call[c].name \in {"saveRoom", "createRoom", "importRoom"}) =>
      Sent(c).password \notin {"null", "undefined"}

\* C21: in cloud mode the value saveRoom transmits has no undefined
\* property (a null leaf of the room passed in is transmitted as null), the
\* record the server keeps has neither, and the write replaces the whole
\* record: a field that the room passed in omits, or holds as null, is
\* absent from the server's record afterwards, whatever the server held.
C21_SentAndReplaced ==
  [][\A c \in Clients :
       SetApply(c) =>
         LET room == call[c].room
             after == remote'[call[c].rid]
         IN /\ Sent(c).password # "undefined"
            /\ after.password \notin {"null", "undefined"}
            /\ room.password \in {"absent", "undefined", "null"} =>
                 after.password = "absent"
            /\ ~Truthy(room.memos) => ~Truthy(after.memos)
            /\ ~Truthy(room.messages) => ~Truthy(after.messages)
            /\ after.id = room.id /\ after.title = room.title]_vars

\* An import whose file had a null password and no memos has replaced a
\* record that had a password and a memo, which a deleteMemo still in
\* flight had read
C21_Witness ==
  /\ cloud
  /\ call["c1"].name = "importRoom" /\ call["c1"].stage = "resolved"
  /\ call["c2"].name = "deleteMemo" /\ call["c2"].stage = "inflight"
  /\ call["c2"].base.password = "pw"
  /\ Truthy(call["c2"].base.memos)
  /\ remote["r1"] # Null
  /\ remote["r1"].password = "absent"
  /\ ~Truthy(remote["r1"].memos)

\* The two records have the same identifier, title, messages and memos
SameContent(a, b) ==
  /\ a.id = b.id
  /\ a.title = b.title
  /\ a.messages = b.messages
  /\ a.memos = b.memos

\* C22: exporting a room and importing the exported file gives the room
\* back: the file holds the identifier, title, messages and memos of the
\* exported room of the list, and once the import of a file has taken
\* effect (at once in local mode, when the set is applied in cloud mode) the
\* collection a subscription is handed holds one record with the file's
\* identifier, and that record has the file's identifier, title, messages
\* and memos, whether the store still held the room or not.
C22_ExportImportRoundTrip ==
  [][/\ \A i \in 1..Len(IdOrder) :
          HandleExportRoom("s1", i) =>
            SameContent(file', sub["s1"].last[i])
     /\ \A c \in Clients :
          (/\ file # Null
           /\ \/ ~cloud /\ ImportRoom(c, file)
              \/ SetApply(c) /\ call[c].name = "importRoom"
                   /\ call[c].room = file) =>
            /\ IdCount(CurrentRooms', file.id) = 1
            /\ SameContent(FindRoom(CurrentRooms', file.id), file)]_vars

\* In cloud mode a room with an added message was exported, the import of
\* the file has resolved, and the subscription has been handed the room with
\* both messages and an empty memo list, which the server does not store
C22_Witness ==
  /\ cloud
  /\ file # Null
  /\ Len(MessagesOf(file)) = 2
  /\ call["c1"].name = "importRoom" /\ call["c1"].stage = "resolved"
  /\ sub["s1"].got
  /\ Len(sub["s1"].last) = 1
  /\ SameContent(sub["s1"].last[1], file)
  /\ sub["s1"].last[1].memos = Arr(<<>>)
  /\ remote[file.id].memos = Absent

\* The record stored for room r in the active backend, Null when none is
StoredRoom(r) == IF cloud THEN remote[r] ELSE FindRoom(getLocalRooms, r)

\* C23: messages are never changed and never deleted one by one: in every
\* step, whatever the operation, a room that is stored before and after the
\* step has its earlier message sequence as a prefix of its later one.
C23_MessagesOnlyAppended ==
  [][\A r \in RoomIds :
       (StoredRoom(r) # Null /\ StoredRoom(r)' # Null) =>
         IsPrefix(MessagesOf(StoredRoom(r)), MessagesOf(StoredRoom(r)'))]_vars

\* Tab c performs a write operation on local storage in this step
WritesLocally(c) ==
  /\ ~cloud
  /\ \/ \E room \in SaveInputs \cup {NewRoom("r1", "t2", "undefined")} :
          SaveRoom(c, room)
     \/ \E roomId \in RoomIds : DeleteRoom(c, roomId)
     \/ \E roomId \in RoomIds, m \in Messages :
          /\ FindRoom(getLocalRooms, roomId) # Null
          /\ IsArray(FindRoom(getLocalRooms, roomId).messages)
          /\ AddMessage(c, roomId, m)
     \/ \E roomId \in RoomIds, k \in Memos :
          /\ FindRoom(getLocalRooms, roomId) # Null
          /\ IsArray(FindRoom(getLocalRooms, roomId).memos)
          /\ (AddMemo(c, roomId, k) \/ DeleteMemo(c, roomId, k))

\* C24: in local mode one write operation in a tab (saveRoom, deleteRoom,
\* addMessage, addMemo, deleteMemo) invokes the callback of every
\* subscription that is active in that tab exactly once.
C24_OneCallbackPerWrite ==
  [][\A c \in Clients, s \in Subs :
       (WritesLocally(c) /\ SubTab(s) = c /\ Live(s)) =>
         fired'[s] = 1]_vars

\* The record is a whole room: it has its identifier and a title
Complete(room, r) == room.id = r /\ room.title \in Titles

\* Client c calls addMessage, addMemo or deleteMemo for roomId in this step
CallsTx(c, roomId) ==
  \/ \E m \in Messages : AddMessage(c, roomId, m)
  \/ \E k \in Memos : AddMemo(c, roomId, k) \/ DeleteMemo(c, roomId, k)

\* C25: addMessage, addMemo and deleteMemo on an identifier that the active
\* backend does not hold leave the store as it is and create no room: in
\* local mode the call writes nothing, in cloud mode a transaction that
\* commits where the server holds no record leaves none.  And however
\* deleteRoom and these operations interleave in cloud mode, a record on
\* the server is never a part of a room: it has its id and title.
C25_NoRoomCreatedByUpdates ==
  /\ [][\A c \in Clients, r \in RoomIds :
          /\ (~cloud /\ CallsTx(c, r) /\ FindRoom(getLocalRooms, r) = Null) =>
               localStore' = localStore
          /\ (TxCommit(c) /\ remote[r] = Null) => remote'[r] = Null]_vars
  /\ [](\A r \in RoomIds : remote[r] # Null => Complete(remote[r], r))

\* A room was deleted on the server while a transaction that had read it is
\* in flight
C25_Witness ==
  /\ cloud
  /\ call["c2"].name = "deleteRoom" /\ call["c2"].stage = "resolved"
  /\ call["c1"].name \in TxNames /\ call["c1"].stage = "inflight"
  /\ call["c1"].base # Null
  /\ remote[call["c1"].rid] = Null

\* C26: with no further writes the App's room subscription comes to rest:
\* after the user has entered a room there are only finitely many runs of
\* the effect (unsubscribe, subscribe, callback), so from some moment on
\* the effect has run for the currentRoom the App holds and does not run
\* again.
C26_SubscriptionQuiesces == <>[](effect.deps = effect.ref)

\* C27: whenever the App shows a room, that room is in the collection the
\* subscription was handed last: a delivery without the room makes the App
\* leave it.
C27_CurrentRoomIsListed ==
  (app["c1"].currentRoom # Null /\ app["c1"].currentUser /\ sub["s1"].got) =>
    FindRoom(sub["s1"].last, app["c1"].currentRoom.id) # Null

====
